---- MODULE Spec2Model ----
(***************************************************************************)
(* Model of grid-math (src/src/lib.rs): Cell, Grid and the movement        *)
(* operations of Cell (strict, saturating, overflowing, wrapping,          *)
(* projection) over u8 coordinates, the constructors and accessors of     *)
(* Grid, the iterators Cells, Rows and Columns, and GridMap.               *)
(*                                                                         *)
(* A panic! ends the program: it is recorded in the result of the call     *)
(* (ret.panic) and no operation follows it.  u8 arithmetic follows the     *)
(* build profile: with overflow-checks an overflowing + or - panics,       *)
(* without them it wraps modulo 2^8; a remainder by zero always panics.    *)
(***************************************************************************)
EXTENDS Integers, FiniteSets, Sequences, TLC

VARIABLES
    overflow_checks, \* build profile: TRUE = debug (overflow-checks on), FALSE = release
    grid,            \* the Grid every operation is called against
    cell,            \* the Cell the program currently holds
    op,              \* name of the last operation called ("none" before the first)
    step,            \* its step argument (NoNum when it takes none)
    prev,            \* the Cell it was called on
    ret,             \* what it returned, or that it panicked
    calls,           \* number of operations called so far
    budget,          \* number of operations the run may call
    args,            \* arguments of the last Grid operation called (<<>> otherwise)
    iter,            \* the iterator the program holds (Cells, Rows or Columns), if any
    yielded,         \* number of elements the iterator has yielded (Some(_) returned)
    map,             \* the GridMap the program holds, if any
    collected        \* the cells a finished traversal has gathered, if any

vars == <<overflow_checks, grid, cell, op, step, prev, ret, calls, budget, args, iter, yielded,
          map, collected>>

\* ---------------------------------------------------------------- bounds
EdgeSpan == 1       \* coordinates are drawn within EdgeSpan of 0 and of u8::MAX
StepSpan == 2       \* steps are drawn within StepSpan of 0 and of u8::MAX
MaxCalls == 2       \* longest chain of operations in SpecWalk

\* ------------------------------------------------------------- u8 domain
U8MAX == 255
NoNum == -1         \* "no u8 value": the evaluation panicked, or the slot is unused

U8 == 0..U8MAX

U8Add(a, b) ==
    IF a = NoNum \/ b = NoNum THEN NoNum
    ELSE IF a + b > U8MAX
         THEN (IF overflow_checks THEN NoNum ELSE (a + b) % (U8MAX + 1))
         ELSE a + b

U8Sub(a, b) ==
    IF a = NoNum \/ b = NoNum THEN NoNum
    ELSE IF a < b
         THEN (IF overflow_checks THEN NoNum ELSE (a + (U8MAX + 1) - b) % (U8MAX + 1))
         ELSE a - b

U8Rem(a, b) ==
    IF a = NoNum \/ b = NoNum THEN NoNum
    ELSE IF b = 0 THEN NoNum
    ELSE a % b

\* ------------------------------------------------------------ data types
MkCell(w, d) == [global_width |-> w, global_depth |-> d]
MkGrid(s, e) == [start |-> s, end |-> e]
NoCell == MkCell(NoNum, NoNum)
NoGrid == MkGrid(NoCell, NoCell)

\* results of a call: exactly one of cell / flag / num / grid is meaningful,
\* (cell and flag for the overflowing moves)
RetPanic == [panic |-> TRUE, cell |-> NoCell, flag |-> FALSE, num |-> NoNum, grid |-> NoGrid]
RetCell(c) == [panic |-> FALSE, cell |-> c, flag |-> FALSE, num |-> NoNum, grid |-> NoGrid]
RetPair(c, b) == [panic |-> FALSE, cell |-> c, flag |-> b, num |-> NoNum, grid |-> NoGrid]
RetBool(b) == [panic |-> FALSE, cell |-> NoCell, flag |-> b, num |-> NoNum, grid |-> NoGrid]
RetNum(n) == IF n = NoNum THEN RetPanic
             ELSE [panic |-> FALSE, cell |-> NoCell, flag |-> FALSE, num |-> n, grid |-> NoGrid]
\* Cell { global_width: w, global_depth: d } where w or d may have panicked
RetCellOf(w, d) == IF w = NoNum \/ d = NoNum THEN RetPanic ELSE RetCell(MkCell(w, d))
RetPairOf(w, d, b) == IF w = NoNum \/ d = NoNum THEN RetPanic ELSE RetPair(MkCell(w, d), b)

\* ------------------------------------------------------------------ Cell
within(self, g) ==
    /\ g.start.global_width <= self.global_width
    /\ self.global_width <= g.end.global_width
    /\ g.start.global_depth <= self.global_depth
    /\ self.global_depth <= g.end.global_depth

\* variant: the membership check looks at the width axis only
within_panic_width_only(self, g) ==
    /\ g.start.global_width <= self.global_width
    /\ self.global_width <= g.end.global_width

\* TRUE when within_panic returns, FALSE when it panics
within_panic(self, g) == within(self, g)

Cell_width(self, g) ==
    IF ~within_panic(self, g) THEN NoNum
    ELSE U8Sub(self.global_width, g.start.global_width)

width_gap(self, g) ==
    IF ~within_panic(self, g) THEN NoNum
    ELSE U8Sub(g.end.global_width, self.global_width)

\* variant: reads the width axis
Cell_depth_of_width(self, g) ==
    IF ~within_panic(self, g) THEN NoNum
    ELSE U8Sub(self.global_width, g.start.global_width)

Cell_depth(self, g) ==
    IF ~within_panic(self, g) THEN NoNum
    ELSE U8Sub(self.global_depth, g.start.global_depth)

depth_gap(self, g) ==
    IF ~within_panic(self, g) THEN NoNum
    ELSE U8Sub(g.end.global_depth, self.global_depth)

\* a < b || a - b < lo, with the subtraction evaluated only when a >= b
WillUnderflow(a, b, lo) ==
    IF a < b THEN RetBool(TRUE)
    ELSE LET x == U8Sub(a, b) IN
         IF x = NoNum THEN RetPanic ELSE RetBool(x < lo)

\* variant: >= in place of > against the border
WillOverflow_ge(a, b, hi) ==
    LET m == U8Sub(U8MAX, b) IN
    IF m = NoNum THEN RetPanic
    ELSE IF a > m THEN RetBool(TRUE)
    ELSE LET x == U8Add(a, b) IN
         IF x = NoNum THEN RetPanic ELSE RetBool(x >= hi)

\* a > u8::MAX - b || a + b > hi, with the addition evaluated only when
\* the first comparison is false
WillOverflow(a, b, hi) ==
    LET m == U8Sub(U8MAX, b) IN
    IF m = NoNum THEN RetPanic
    ELSE IF a > m THEN RetBool(TRUE)
    ELSE LET x == U8Add(a, b) IN
         IF x = NoNum THEN RetPanic ELSE RetBool(x > hi)

will_underflow_depth(self, g, s) ==
    IF ~within_panic(self, g) THEN RetPanic
    ELSE WillUnderflow(self.global_depth, s, g.start.global_depth)

will_overflow_depth(self, g, s) ==
    IF ~within_panic(self, g) THEN RetPanic
    ELSE WillOverflow(self.global_depth, s, g.end.global_depth)

will_underflow_width(self, g, s) ==
    IF ~within_panic(self, g) THEN RetPanic
    ELSE WillUnderflow(self.global_width, s, g.start.global_width)

will_overflow_width(self, g, s) ==
    IF ~within_panic(self, g) THEN RetPanic
    ELSE WillOverflow(self.global_width, s, g.end.global_width)

\* ---------------------------------------------------------- strict moves
strict_up(self, g, s) ==
    LET w == will_underflow_depth(self, g, s) IN
    IF w.panic \/ w.flag THEN RetPanic
    ELSE RetCellOf(self.global_width, U8Sub(self.global_depth, s))

strict_down(self, g, s) ==
    LET w == will_overflow_depth(self, g, s) IN
    IF w.panic \/ w.flag THEN RetPanic
    ELSE RetCellOf(self.global_width, U8Add(self.global_depth, s))

strict_left(self, g, s) ==
    LET w == will_underflow_width(self, g, s) IN
    IF w.panic \/ w.flag THEN RetPanic
    ELSE RetCellOf(U8Sub(self.global_width, s), self.global_depth)

strict_right(self, g, s) ==
    LET w == will_overflow_width(self, g, s) IN
    IF w.panic \/ w.flag THEN RetPanic
    ELSE RetCellOf(U8Add(self.global_width, s), self.global_depth)

\* ------------------------------------------------------ saturating moves
saturating_up(self, g, s) ==
    LET w == will_underflow_depth(self, g, s) IN
    IF w.panic THEN RetPanic
    ELSE RetCellOf(self.global_width,
                   IF w.flag THEN g.start.global_depth
                   ELSE U8Sub(self.global_depth, s))

\* variant: the step is added whether or not it crosses the border
saturating_down_no_clamp(self, g, s) ==
    IF ~within_panic(self, g) THEN RetPanic
    ELSE RetCellOf(self.global_width, U8Add(self.global_depth, s))

saturating_down(self, g, s) ==
    LET w == will_overflow_depth(self, g, s) IN
    IF w.panic THEN RetPanic
    ELSE RetCellOf(self.global_width,
                   IF w.flag THEN g.end.global_depth
                   ELSE U8Add(self.global_depth, s))

\* variant: clamps to 0 as u8::saturating_sub does, not to the grid's border
saturating_left_to_zero(self, g, s) ==
    LET w == will_underflow_width(self, g, s) IN
    IF w.panic THEN RetPanic
    ELSE RetCellOf(IF w.flag THEN 0
                   ELSE U8Sub(self.global_width, s),
                   self.global_depth)

saturating_left(self, g, s) ==
    LET w == will_underflow_width(self, g, s) IN
    IF w.panic THEN RetPanic
    ELSE RetCellOf(IF w.flag THEN g.start.global_width
                   ELSE U8Sub(self.global_width, s),
                   self.global_depth)

\* variant: clamps to u8::MAX as u8::saturating_add does, not to the grid's border
saturating_right_to_max(self, g, s) ==
    LET w == will_overflow_width(self, g, s) IN
    IF w.panic THEN RetPanic
    ELSE RetCellOf(IF w.flag THEN U8MAX
                   ELSE U8Add(self.global_width, s),
                   self.global_depth)

saturating_right(self, g, s) ==
    LET w == will_overflow_width(self, g, s) IN
    IF w.panic THEN RetPanic
    ELSE RetCellOf(IF w.flag THEN g.end.global_width
                   ELSE U8Add(self.global_width, s),
                   self.global_depth)

\* ------------------------------------------------------------------ Grid
Grid_width(g) == U8Add(U8Sub(g.end.global_width, g.start.global_width), 1)

\* variant: the distance between the borders, without the + 1
Grid_depth_no_inc(g) == U8Sub(g.end.global_depth, g.start.global_depth)

Grid_depth(g) == U8Add(U8Sub(g.end.global_depth, g.start.global_depth), 1)


\* ----------------------------------------------------- overflowing moves
overflowing_up(self, g, s) ==
    LET w == will_underflow_depth(self, g, s) IN
    IF w.panic THEN RetPanic
    ELSE RetPairOf(self.global_width,
                   IF w.flag
                   THEN U8Sub(g.end.global_depth,
                              U8Rem(U8Sub(U8Sub(s, Cell_depth(self, g)), 1),
                                    Grid_depth(g)))
                   ELSE U8Sub(self.global_depth, s),
                   w.flag)

overflowing_down(self, g, s) ==
    LET w == will_overflow_depth(self, g, s) IN
    IF w.panic THEN RetPanic
    ELSE RetPairOf(self.global_width,
                   IF w.flag
                   THEN U8Add(g.start.global_depth,
                              U8Rem(U8Sub(U8Sub(s, depth_gap(self, g)), 1),
                                    Grid_depth(g)))
                   ELSE U8Add(self.global_depth, s),
                   w.flag)

overflowing_left(self, g, s) ==
    LET w == will_underflow_width(self, g, s) IN
    IF w.panic THEN RetPanic
    ELSE RetPairOf(IF w.flag
                   THEN U8Sub(g.end.global_width,
                              U8Rem(U8Sub(U8Sub(s, Cell_width(self, g)), 1),
                                    Grid_width(g)))
                   ELSE U8Sub(self.global_width, s),
                   self.global_depth,
                   w.flag)

\* variant: re-enters from the left border without reducing modulo the width
overflowing_right_no_rem(self, g, s) ==
    LET w == will_overflow_width(self, g, s) IN
    IF w.panic THEN RetPanic
    ELSE RetPairOf(IF w.flag
                   THEN U8Add(g.start.global_width,
                              U8Sub(U8Sub(s, width_gap(self, g)), 1))
                   ELSE U8Add(self.global_width, s),
                   self.global_depth,
                   w.flag)

overflowing_right(self, g, s) ==
    LET w == will_overflow_width(self, g, s) IN
    IF w.panic THEN RetPanic
    ELSE RetPairOf(IF w.flag
                   THEN U8Add(g.start.global_width,
                              U8Rem(U8Sub(U8Sub(s, width_gap(self, g)), 1),
                                    Grid_width(g)))
                   ELSE U8Add(self.global_width, s),
                   self.global_depth,
                   w.flag)

\* -------------------------------------------------------- wrapping moves
\* .0 of the overflowing move
First(r) == IF r.panic THEN RetPanic ELSE RetCell(r.cell)

wrapping_up(self, g, s) == First(overflowing_up(self, g, s))

wrapping_down(self, g, s) == First(overflowing_down(self, g, s))

wrapping_left(self, g, s) == First(overflowing_left(self, g, s))

wrapping_right(self, g, s) == First(overflowing_right(self, g, s))

\* ----------------------------------------------------------- projections
project_up(self, g) == saturating_up(self, g, U8MAX)

\* variant: projects along the width axis
project_down_sideways(self, g) == saturating_right(self, g, U8MAX)

project_down(self, g) == saturating_down(self, g, U8MAX)

project_left(self, g) == saturating_left(self, g, U8MAX)

project_right(self, g) == saturating_right(self, g, U8MAX)

\* --------------------------------------------------------------- inputs
\* Grid::new(10, 10), the grid of the doc tests, with the cells and steps
\* the doc tests and the examples of the specification use on it
DocGrid == MkGrid(MkCell(0, 0), MkCell(9, 9))

DocCells == {MkCell(2, 2), MkCell(7, 7)}

DocSteps == {3, 5, 8}

Coords == (0..EdgeSpan) \cup ((U8MAX - EdgeSpan)..U8MAX)

Steps == (0..StepSpan) \cup ((U8MAX - StepSpan)..U8MAX) \cup DocSteps

AllCells == {MkCell(w, d) : w \in Coords, d \in Coords} \cup DocCells

\* Grids as the constructors make them: From<(Cell, Cell)> accepts exactly
\* the pairs with start <= end on both axes
ValidGrid(g) ==
    /\ g.start.global_width <= g.end.global_width
    /\ g.start.global_depth <= g.end.global_depth

Grids ==
    {g \in {MkGrid(s, e) : s \in AllCells \ DocCells, e \in AllCells \ DocCells} :
        ValidGrid(g)} \cup {DocGrid}

\* the grids that span the same interval on both axes
SquareGrids ==
    {g \in Grids : /\ g.start.global_width = g.start.global_depth
                   /\ g.end.global_width = g.end.global_depth}

\* -------------------------------------------------------------- actions
\* The program calls operation name with argument s on the cell it holds;
\* r is what the call evaluates to.  A move that returns replaces the held
\* cell (chains such as a.saturating_right(g, 5).wrapping_down(g, 15)).
Call(name, s, r, moves) ==
    /\ ~ret.panic
    /\ calls < budget
    /\ op' = name
    /\ step' = s
    /\ prev' = cell
    /\ ret' = r
    /\ cell' = IF moves /\ ~r.panic THEN r.cell ELSE cell
    /\ calls' = calls + 1
    /\ UNCHANGED <<overflow_checks, grid, budget, args, iter, yielded, map, collected>>

CellWidth == Call("width", NoNum, RetNum(Cell_width(cell, grid)), FALSE)
CellWidthGap == Call("width_gap", NoNum, RetNum(width_gap(cell, grid)), FALSE)
CellDepth == Call("depth", NoNum, RetNum(Cell_depth(cell, grid)), FALSE)
CellDepthGap == Call("depth_gap", NoNum, RetNum(depth_gap(cell, grid)), FALSE)

WillUnderflowDepth ==
    \E s \in Steps : Call("will_underflow_depth", s, will_underflow_depth(cell, grid, s), FALSE)
WillOverflowDepth ==
    \E s \in Steps : Call("will_overflow_depth", s, will_overflow_depth(cell, grid, s), FALSE)
WillUnderflowWidth ==
    \E s \in Steps : Call("will_underflow_width", s, will_underflow_width(cell, grid, s), FALSE)
WillOverflowWidth ==
    \E s \in Steps : Call("will_overflow_width", s, will_overflow_width(cell, grid, s), FALSE)

StrictUp == \E s \in Steps : Call("strict_up", s, strict_up(cell, grid, s), TRUE)
StrictDown == \E s \in Steps : Call("strict_down", s, strict_down(cell, grid, s), TRUE)
StrictLeft == \E s \in Steps : Call("strict_left", s, strict_left(cell, grid, s), TRUE)
StrictRight == \E s \in Steps : Call("strict_right", s, strict_right(cell, grid, s), TRUE)

SaturatingUp == \E s \in Steps : Call("saturating_up", s, saturating_up(cell, grid, s), TRUE)
SaturatingDown == \E s \in Steps : Call("saturating_down", s, saturating_down(cell, grid, s), TRUE)
SaturatingLeft == \E s \in Steps : Call("saturating_left", s, saturating_left(cell, grid, s), TRUE)
SaturatingRight == \E s \in Steps : Call("saturating_right", s, saturating_right(cell, grid, s), TRUE)

OverflowingUp == \E s \in Steps : Call("overflowing_up", s, overflowing_up(cell, grid, s), TRUE)
OverflowingDown == \E s \in Steps : Call("overflowing_down", s, overflowing_down(cell, grid, s), TRUE)
OverflowingLeft == \E s \in Steps : Call("overflowing_left", s, overflowing_left(cell, grid, s), TRUE)
OverflowingRight == \E s \in Steps : Call("overflowing_right", s, overflowing_right(cell, grid, s), TRUE)

WrappingUp == \E s \in Steps : Call("wrapping_up", s, wrapping_up(cell, grid, s), TRUE)
WrappingDown == \E s \in Steps : Call("wrapping_down", s, wrapping_down(cell, grid, s), TRUE)
WrappingLeft == \E s \in Steps : Call("wrapping_left", s, wrapping_left(cell, grid, s), TRUE)
WrappingRight == \E s \in Steps : Call("wrapping_right", s, wrapping_right(cell, grid, s), TRUE)

ProjectUp == Call("project_up", NoNum, project_up(cell, grid), TRUE)
ProjectDown == Call("project_down", NoNum, project_down(cell, grid), TRUE)
ProjectLeft == Call("project_left", NoNum, project_left(cell, grid), TRUE)
ProjectRight == Call("project_right", NoNum, project_right(cell, grid), TRUE)

Accessors == CellWidth \/ CellWidthGap \/ CellDepth \/ CellDepthGap

Predicates ==
    WillUnderflowDepth \/ WillOverflowDepth \/ WillUnderflowWidth \/ WillOverflowWidth

Moves ==
    \/ StrictUp \/ StrictDown \/ StrictLeft \/ StrictRight
    \/ SaturatingUp \/ SaturatingDown \/ SaturatingLeft \/ SaturatingRight
    \/ OverflowingUp \/ OverflowingDown \/ OverflowingLeft \/ OverflowingRight
    \/ WrappingUp \/ WrappingDown \/ WrappingLeft \/ WrappingRight
    \/ ProjectUp \/ ProjectDown \/ ProjectLeft \/ ProjectRight

Next == Accessors \/ Predicates \/ Moves

\* no iterator has been made
NoIter == [kind |-> "none", grid |-> NoGrid, current |-> NoCell, consumed |-> FALSE]

\* no GridMap has been made; a GridMap is its grid and the set of the
\* entries (key, value) of its HashMap, one entry per key
NoMap == [made |-> FALSE, grid |-> NoGrid, hashmap |-> {}]

\* no traversal has been run to its end
NoCollected == [of |-> "none", panic |-> FALSE, cells |-> <<>>]

Start(cells, n) ==
    /\ overflow_checks \in BOOLEAN
    /\ grid \in Grids
    /\ cell \in cells
    /\ op = "none"
    /\ step = NoNum
    /\ prev = cell
    /\ ret = RetCell(cell)
    /\ calls = 0
    /\ budget = n
    /\ args = <<>>
    /\ iter = NoIter
    /\ yielded = 0
    /\ map = NoMap
    /\ collected = NoCollected

\* one call on a cell of the grid
Init ==
    /\ Start(AllCells, 1)
    /\ within(cell, grid)

Spec == Init /\ [][Next]_vars

\* one call on a cell that is not within the grid
InitOutside ==
    /\ Start(AllCells, 1)
    /\ grid \in SquareGrids
    /\ ~within(cell, grid)

SpecOutside == InitOutside /\ [][Next]_vars

\* chains of up to MaxCalls moves starting on grid.start(), as in
\* start.saturating_right(grid, 5).wrapping_down(grid, 15).strict_left(grid, 1)
InitWalk ==
    /\ Start(AllCells, MaxCalls)
    /\ grid \in SquareGrids
    /\ cell = grid.start

SpecWalk == InitWalk /\ [][Moves]_vars

\* ======================================================================
\* Properties.  They are stated over the record of the last call: op was
\* called on prev with argument step against grid and evaluated to ret.
\* Coordinates are compared as unbounded integers.
\* ======================================================================
UpOps == {"strict_up", "saturating_up", "overflowing_up", "wrapping_up", "project_up"}
DownOps == {"strict_down", "saturating_down", "overflowing_down", "wrapping_down", "project_down"}
LeftOps == {"strict_left", "saturating_left", "overflowing_left", "wrapping_left", "project_left"}
RightOps == {"strict_right", "saturating_right", "overflowing_right", "wrapping_right", "project_right"}

StrictOps == {"strict_up", "strict_down", "strict_left", "strict_right"}
SaturatingOps == {"saturating_up", "saturating_down", "saturating_left", "saturating_right"}
OverflowingOps == {"overflowing_up", "overflowing_down", "overflowing_left", "overflowing_right"}
WrappingOps == {"wrapping_up", "wrapping_down", "wrapping_left", "wrapping_right"}
ProjectOps == {"project_up", "project_down", "project_left", "project_right"}
MoveOps == StrictOps \cup SaturatingOps \cup OverflowingOps \cup WrappingOps \cup ProjectOps

\* the cell n steps from c in the direction of o, not confined to u8
Moved(o, c, n) ==
    MkCell(c.global_width + (IF o \in RightOps THEN n ELSE IF o \in LeftOps THEN 0 - n ELSE 0),
           c.global_depth + (IF o \in DownOps THEN n ELSE IF o \in UpOps THEN 0 - n ELSE 0))

\* the move stays in the u8 domain and inside the grid
Fits(o, c, g, n) ==
    /\ Moved(o, c, n).global_width \in U8
    /\ Moved(o, c, n).global_depth \in U8
    /\ within(Moved(o, c, n), g)

\* c moved onto the border of g that o travels towards
OnBorder(o, c, g) ==
    MkCell(IF o \in RightOps THEN g.end.global_width
           ELSE IF o \in LeftOps THEN g.start.global_width ELSE c.global_width,
           IF o \in DownOps THEN g.end.global_depth
           ELSE IF o \in UpOps THEN g.start.global_depth ELSE c.global_depth)

\* the strict move in the direction of o
StrictOf(o, c, g, n) ==
    IF o \in UpOps THEN strict_up(c, g, n)
    ELSE IF o \in DownOps THEN strict_down(c, g, n)
    ELSE IF o \in LeftOps THEN strict_left(c, g, n)
    ELSE strict_right(c, g, n)

\* extent of g on the axis o travels along, and the distance from c to the
\* border o travels towards
Extent(o, g) ==
    IF o \in LeftOps \cup RightOps
    THEN g.end.global_width - g.start.global_width + 1
    ELSE g.end.global_depth - g.start.global_depth + 1

Gap(o, c, g) ==
    IF o \in RightOps THEN g.end.global_width - c.global_width
    ELSE IF o \in LeftOps THEN c.global_width - g.start.global_width
    ELSE IF o \in DownOps THEN g.end.global_depth - c.global_depth
    ELSE c.global_depth - g.start.global_depth

\* C1: a strict move from a cell of the grid returns the cell `step` further
\* along its axis (other coordinate unchanged) exactly when that cell is in
\* 0..255 and inside the grid, and panics in every other case.
Thm_C1 ==
    (op \in StrictOps /\ within(prev, grid)) =>
        IF Fits(op, prev, grid, step)
        THEN ret = RetCell(Moved(op, prev, step))
        ELSE ret = RetPanic

\* (2,2).strict_right(3) = (5,2) in the 10x10 grid from the origin
Wit_C1 ==
    /\ op = "strict_right" /\ grid = DocGrid /\ prev = MkCell(2, 2) /\ step = 3
    /\ ret = RetCell(MkCell(5, 2))

\* C2: a saturating move from a cell of the grid returns what the strict
\* move returns when the strict move succeeds, and otherwise the cell with
\* the travel coordinate replaced by the border in the direction of travel.
Thm_C2 ==
    (op \in SaturatingOps /\ within(prev, grid)) =>
        LET st == StrictOf(op, prev, grid, step) IN
        IF ~st.panic THEN ret = st
        ELSE ret = RetCell(OnBorder(op, prev, grid))

\* a saturating move that clamps: the strict move fails and the cell was
\* not on the border yet
Wit_C2 ==
    /\ op \in SaturatingOps /\ within(prev, grid)
    /\ StrictOf(op, prev, grid, step).panic
    /\ ~ret.panic
    /\ ret.cell = OnBorder(op, prev, grid)
    /\ ret.cell # prev

\* C3: an overflowing move from a cell of the grid returns the strict
\* move's cell with wrapped = FALSE when the strict move succeeds, and
\* returns wrapped = TRUE exactly when the strict move fails.
Cex_C3 ==
    (op \in OverflowingOps /\ within(prev, grid)) =>
        LET st == StrictOf(op, prev, grid, step) IN
        IF ~st.panic THEN ret = RetPair(st.cell, FALSE)
        ELSE ~ret.panic /\ ret.flag

\* C4: a border-crossing overflowing move of magnitude step from a cell
\* whose gap to the border of travel is gp lands (step - gp - 1) mod L cells
\* in from the opposite border, L the extent of the axis, and step - gp - 1
\* does not underflow.
Cex_C4 ==
    (op \in OverflowingOps /\ within(prev, grid) /\ ~Fits(op, prev, grid, step)) =>
        LET k == step - Gap(op, prev, grid) - 1
            r == k % Extent(op, grid)
            landed ==
                IF op \in UpOps THEN MkCell(prev.global_width, grid.end.global_depth - r)
                ELSE IF op \in DownOps THEN MkCell(prev.global_width, grid.start.global_depth + r)
                ELSE IF op \in LeftOps THEN MkCell(grid.end.global_width - r, prev.global_depth)
                ELSE MkCell(grid.start.global_width + r, prev.global_depth)
        IN  /\ k >= 0
            /\ ret = RetPair(landed, TRUE)

\* C5: a wrapping move from a cell of the grid is periodic in the extent L
\* of the travel axis: step and step mod L give the same outcome.
WrappingOf(o, c, g, n) ==
    IF o \in UpOps THEN wrapping_up(c, g, n)
    ELSE IF o \in DownOps THEN wrapping_down(c, g, n)
    ELSE IF o \in LeftOps THEN wrapping_left(c, g, n)
    ELSE wrapping_right(c, g, n)

Cex_C6 ==
    (op \in SaturatingOps \cup OverflowingOps \cup WrappingOps /\ within(prev, grid)) =>
        ~ret.panic

\* C7: every operation that requires membership panics when called on a
\* cell that is not within the grid, and returns no value.
Thm_C7 ==
    (op # "none" /\ ~within(prev, grid)) => ret = RetPanic

\* a width-axis accessor called on a cell that is outside on the depth
\* axis only
Wit_C7 ==
    /\ op \in {"width", "width_gap"}
    /\ grid.start.global_width <= prev.global_width
    /\ prev.global_width <= grid.end.global_width
    /\ ~within(prev, grid)
    /\ ret = RetPanic

\* C8: after any sequence of successful moves that starts on a cell of the
\* grid, the cell held is the one the last move returned and is within the
\* grid.
Thm_C8 ==
    (op \in MoveOps /\ ~ret.panic) => (cell = ret.cell /\ within(cell, grid))

\* a move that wraps round the grid after an earlier move
Wit_C8 ==
    /\ calls >= 2
    /\ op \in OverflowingOps \cup WrappingOps
    /\ ~Fits(op, prev, grid, step)
    /\ ~ret.panic
    /\ cell # prev
    /\ prev # grid.start

\* C9: each projection from a cell of the grid returns the cell on the
\* named border with the other coordinate unchanged, which is what the
\* saturating move with step 255 returns.
SaturatingOf(o, c, g, n) ==
    IF o \in UpOps THEN saturating_up(c, g, n)
    ELSE IF o \in DownOps THEN saturating_down(c, g, n)
    ELSE IF o \in LeftOps THEN saturating_left(c, g, n)
    ELSE saturating_right(c, g, n)

Thm_C9 ==
    (op \in ProjectOps /\ within(prev, grid)) =>
        /\ ret = RetCell(OnBorder(op, prev, grid))
        /\ ret = SaturatingOf(op, prev, grid, U8MAX)

\* project_left from coordinate 255 in a grid that starts at 0: the step of
\* 255 lands exactly on the border
Wit_C9 ==
    /\ op = "project_left" /\ within(prev, grid)
    /\ prev.global_width = U8MAX /\ grid.start.global_width = 0
    /\ ret = RetCell(MkCell(0, prev.global_depth))

\* C10: for a cell of the grid, width and depth are the distances from the
\* grid's start and width_gap and depth_gap the distances to the grid's
\* end; none of them underflows, and position + gap + 1 is the extent.
Thm_C10 ==
    within(prev, grid) =>
        /\ op = "width" =>
            /\ ~ret.panic
            /\ ret.num + grid.start.global_width = prev.global_width
            /\ ret.num + width_gap(prev, grid) + 1 = Extent("strict_right", grid)
        /\ op = "depth" =>
            /\ ~ret.panic
            /\ ret.num + grid.start.global_depth = prev.global_depth
            /\ ret.num + depth_gap(prev, grid) + 1 = Extent("strict_down", grid)
        /\ op = "width_gap" =>
            /\ ~ret.panic
            /\ ret.num = grid.end.global_width - prev.global_width
        /\ op = "depth_gap" =>
            /\ ~ret.panic
            /\ ret.num = grid.end.global_depth - prev.global_depth

\* depth of a cell that is neither on the top row nor in the column of that
\* index
Wit_C10 ==
    /\ op = "depth" /\ within(prev, grid)
    /\ ret.num > 0
    /\ ret.num # prev.global_width - grid.start.global_width

\* ======================================================================
\* Grid: constructors, conversions and accessors
\* ======================================================================
RetGrid(g) == [panic |-> FALSE, cell |-> NoCell, flag |-> FALSE, num |-> NoNum, grid |-> g]

\* Grid { start: s, end: e } where s and e are results that may have panicked
RetGridOf(s, e) == IF s.panic \/ e.panic THEN RetPanic ELSE RetGrid(MkGrid(s.cell, e.cell))

Grid_new(width, depth) ==
    IF width < 1 \/ depth < 1 THEN RetPanic
    ELSE RetGridOf(RetCell(MkCell(0, 0)),
                   RetCellOf(U8Sub(width, 1), U8Sub(depth, 1)))

\* indent is the tuple (indent.0, indent.1)
Grid_indented(width, depth, indent) ==
    IF width < 1 \/ depth < 1 THEN RetPanic
    ELSE RetGridOf(RetCell(MkCell(indent[1], indent[2])),
                   RetCellOf(U8Sub(U8Add(indent[1], width), 1),
                             U8Sub(U8Add(indent[2], depth), 1)))

Grid_within(self, g) == within(self.start, g) /\ within(self.end, g)

\* self.start.strict_right(self, width).strict_down(self, depth)
Grid_member(self, width, depth) ==
    LET a == strict_right(self.start, self, width) IN
    IF a.panic THEN RetPanic ELSE strict_down(a.cell, self, depth)

\* variant: the extents are used as offsets, without the - 1
Grid_area_no_dec(self, width, depth) ==
    IF width < 1 \/ depth < 1 THEN RetPanic
    ELSE RetGridOf(RetCell(self.start), Grid_member(self, width, depth))

Grid_area(self, width, depth) ==
    IF width < 1 \/ depth < 1 THEN RetPanic
    ELSE LET w == U8Sub(width, 1)
             d == U8Sub(depth, 1)
         IN  IF w = NoNum \/ d = NoNum THEN RetPanic
             ELSE RetGridOf(RetCell(self.start), Grid_member(self, w, d))

Grid_slice(self, width, depth, indent) ==
    IF width < 1 \/ depth < 1 THEN RetPanic
    ELSE LET s == Grid_member(self, indent[1], indent[2])
             w == U8Sub(U8Add(indent[1], width), 1)
             a == IF w = NoNum THEN RetPanic ELSE strict_right(self.start, self, w)
             d == U8Sub(U8Add(indent[2], depth), 1)
             e == IF a.panic \/ d = NoNum THEN RetPanic ELSE strict_down(a.cell, self, d)
         IN  RetGridOf(s, e)

\* self.width() as u16 * self.depth() as u16: the product of two u8 values
\* fits u16
Grid_size(self) ==
    LET w == Grid_width(self)
        d == Grid_depth(self)
    IN  IF w = NoNum \/ d = NoNum THEN NoNum ELSE w * d

\* From<(Cell, Cell)> for Grid
Grid_from(start, end) ==
    IF start.global_width > end.global_width \/ start.global_depth > end.global_depth
    THEN RetPanic
    ELSE RetGrid(MkGrid(start, end))

\* From<((u8, u8), (u8, u8))> for Grid, through From<(u8, u8)> for Cell
Cell_from(value) == MkCell(value[1], value[2])

Grid_from_tuples(value) ==
    LET start == Cell_from(value[1])
        end == Cell_from(value[2])
    IN  IF start.global_width > end.global_width \/ start.global_depth > end.global_depth
        THEN RetPanic
        ELSE RetGrid(MkGrid(start, end))

\* --------------------------------------------------------------- inputs
\* extents and offsets passed to the Grid operations, and indents
Sizes == Steps

Indents == Coords \X Coords

\* -------------------------------------------------------------- actions
\* The program calls Grid operation name with arguments a (on grid, for the
\* methods); r is what the call evaluates to.  Nothing is called after a
\* panic.
Ready == ~ret.panic /\ calls < budget

CallGrid(name, a, r) ==
    /\ op' = name
    /\ args' = a
    /\ ret' = r
    /\ calls' = calls + 1
    /\ UNCHANGED <<overflow_checks, grid, cell, step, prev, budget, iter, yielded, map, collected>>

GridNew ==
    /\ Ready
    /\ \E w \in Sizes, d \in Sizes : CallGrid("Grid::new", <<w, d>>, Grid_new(w, d))

GridIndented ==
    /\ Ready
    /\ \E w \in Sizes, d \in Sizes, i \in Indents :
        CallGrid("Grid::indented", <<w, d, i>>, Grid_indented(w, d, i))

GridFrom ==
    /\ Ready
    /\ \E s \in AllCells, e \in AllCells :
        CallGrid("Grid::from", <<s, e>>, Grid_from(s, e))

GridFromTuples ==
    /\ Ready
    /\ \E s \in AllCells, e \in AllCells :
        LET v == <<<<s.global_width, s.global_depth>>, <<e.global_width, e.global_depth>>>>
        IN  CallGrid("Grid::from_tuples", v, Grid_from_tuples(v))

GridMember ==
    /\ Ready
    /\ \E w \in Sizes, d \in Sizes : CallGrid("member", <<w, d>>, Grid_member(grid, w, d))

\* grid.member(grid.width() - 1, grid.depth() - 1)
GridMemberLast ==
    /\ Ready
    /\ LET w == U8Sub(Grid_width(grid), 1)
           d == U8Sub(Grid_depth(grid), 1)
       IN  CallGrid("member_last", <<w, d>>,
                    IF w = NoNum \/ d = NoNum THEN RetPanic ELSE Grid_member(grid, w, d))

GridArea ==
    /\ Ready
    /\ \E w \in Sizes, d \in Sizes : CallGrid("area", <<w, d>>, Grid_area(grid, w, d))

GridSlice ==
    /\ Ready
    /\ \E w \in Sizes, d \in Sizes, i \in Indents :
        CallGrid("slice", <<w, d, i>>, Grid_slice(grid, w, d, i))

GridWidth == Ready /\ CallGrid("Grid::width", <<>>, RetNum(Grid_width(grid)))

GridDepth == Ready /\ CallGrid("Grid::depth", <<>>, RetNum(Grid_depth(grid)))

GridSize == Ready /\ CallGrid("Grid::size", <<>>, RetNum(Grid_size(grid)))

NextGrid ==
    \/ GridNew \/ GridIndented \/ GridFrom \/ GridFromTuples
    \/ GridMember \/ GridMemberLast \/ GridArea \/ GridSlice
    \/ GridWidth \/ GridDepth \/ GridSize

\* one call of a Grid operation
InitGrid ==
    /\ Start(AllCells, 1)
    /\ grid \in SquareGrids
    /\ cell = grid.start

SpecGrid == InitGrid /\ [][NextGrid]_vars

\* ----------------------------------------------------------- properties
\* extents of a grid, as unbounded integers
ExtentW(g) == g.end.global_width - g.start.global_width + 1
ExtentD(g) == g.end.global_depth - g.start.global_depth + 1

\* the cell at offset (w, d) from the start of g, not confined to u8
Offset(g, w, d) == MkCell(g.start.global_width + w, g.start.global_depth + d)

\* C11: member(w, d) returns the cell at offset (w, d) from the grid's start
\* when that cell is within the grid and panics otherwise; so member(0, 0)
\* is the start, and member(width() - 1, depth() - 1) is the end.
Cex_C11 ==
    /\ op = "member" =>
        IF within(Offset(grid, args[1], args[2]), grid)
        THEN ret = RetCell(Offset(grid, args[1], args[2]))
        ELSE ret = RetPanic
    /\ op = "member_last" => ret = RetCell(grid.end)

\* C12: width() returns end.width - start.width + 1, depth() returns
\* end.depth - start.depth + 1 and size() their product, without overflow,
\* also for an extent of 256.
Cex_C12 ==
    /\ op = "Grid::width" => ret = RetNum(ExtentW(grid))
    /\ op = "Grid::depth" => ret = RetNum(ExtentD(grid))
    /\ op = "Grid::size" => ret = RetNum(ExtentW(grid) * ExtentD(grid))

\* C13: every Grid a constructor, conversion, area or slice returns has
\* start <= end on both axes; inputs that would give anything else make the
\* call fail.
ReturnsGrid == {"Grid::new", "Grid::indented", "Grid::from", "Grid::from_tuples", "area", "slice"}

Cex_C13 ==
    (op \in ReturnsGrid /\ ~ret.panic) => ValidGrid(ret.grid)

\* C14: Grid::new and Grid::indented panic when width < 1 or depth < 1;
\* otherwise, when the end cell (iw + width - 1, id + depth - 1) is in
\* 0..255, they return the grid from the indent ((0, 0) for new) to that
\* end cell, whose extents are width and depth.
Cex_C14 ==
    /\ op = "Grid::new" =>
        IF args[1] < 1 \/ args[2] < 1 THEN ret = RetPanic
        ELSE ret = RetGrid(MkGrid(MkCell(0, 0), MkCell(args[1] - 1, args[2] - 1)))
    /\ op = "Grid::indented" =>
        LET iw == args[3][1]
            id == args[3][2]
            e == MkCell(iw + args[1] - 1, id + args[2] - 1)
        IN  IF args[1] < 1 \/ args[2] < 1 THEN ret = RetPanic
            ELSE (e.global_width \in U8 /\ e.global_depth \in U8) =>
                    /\ ret = RetGrid(MkGrid(MkCell(iw, id), e))
                    /\ ExtentW(ret.grid) = args[1]
                    /\ ExtentD(ret.grid) = args[2]

\* C15: area(width, depth) panics when an extent is zero or exceeds the
\* grid's; otherwise it returns the grid from the grid's start to
\* (start.width + width - 1, start.depth + depth - 1), which is within the
\* grid and has width() = width and depth() = depth.
Thm_C15 ==
    op = "area" =>
        IF args[1] = 0 \/ args[2] = 0 \/ args[1] > ExtentW(grid) \/ args[2] > ExtentD(grid)
        THEN ret = RetPanic
        ELSE /\ ret = RetGrid(MkGrid(grid.start, Offset(grid, args[1] - 1, args[2] - 1)))
             /\ Grid_within(ret.grid, grid)
             /\ Grid_width(ret.grid) = args[1]
             /\ Grid_depth(ret.grid) = args[2]

\* an area smaller than the grid and larger than a cell
Wit_C15 ==
    /\ op = "area" /\ ~ret.panic
    /\ args[1] > 1 /\ args[2] > 1 /\ args[1] # args[2]
    /\ ret.grid.end # grid.end

\* C16: slice(width, depth, (iw, id)) returns the grid from start + (iw, id)
\* to start + (iw + width - 1, id + depth - 1) when both extents are >= 1 and
\* both cells are within the grid, and the result is within the grid; it
\* panics in every other case.
Cex_C16 ==
    op = "slice" =>
        LET s == Offset(grid, args[3][1], args[3][2])
            e == Offset(grid, args[3][1] + args[1] - 1, args[3][2] + args[2] - 1)
        IN  IF args[1] >= 1 /\ args[2] >= 1 /\ within(s, grid) /\ within(e, grid)
            THEN ret = RetGrid(MkGrid(s, e)) /\ Grid_within(ret.grid, grid)
            ELSE ret = RetPanic

\* ======================================================================
\* Iterators: Cells, Rows, Columns
\* ======================================================================
MaxCellsSize == 512     \* Cells is run on the grids of at most this many cells
MaxExtraNext == 2       \* next() calls made on an exhausted iterator

\* None, returned by next()
RetNone == [panic |-> FALSE, cell |-> NoCell, flag |-> FALSE, num |-> NoNum, grid |-> NoGrid]

MkIter(k, g, c, b) == [kind |-> k, grid |-> g, current |-> c, consumed |-> b]

\* the outcome of a call on an iterator: the iterator afterwards and what
\* the call returned (a panic leaves no iterator to use)
Outcome(it, r) == [iter |-> it, ret |-> r]

\* From<Grid> for Cells
Cells_from(g) == Outcome(MkIter("cells", g, g.start, FALSE), RetNone)

\* variant: the first column is taken with project_right, as Rows does
Columns_from_as_rows(g) ==
    LET e == project_right(g.start, g) IN
    IF e.panic THEN Outcome(NoIter, RetPanic)
    ELSE Outcome(MkIter("columns", g, MkGrid(g.start, e.cell), FALSE), RetNone)

\* From<Grid> for Columns
Columns_from(g) ==
    LET e == project_down(g.start, g) IN
    IF e.panic THEN Outcome(NoIter, RetPanic)
    ELSE Outcome(MkIter("columns", g, MkGrid(g.start, e.cell), FALSE), RetNone)

\* variant: the first row is taken with project_down, as Columns does
Rows_from_as_columns(g) ==
    LET e == project_down(g.start, g) IN
    IF e.panic THEN Outcome(NoIter, RetPanic)
    ELSE Outcome(MkIter("rows", g, MkGrid(g.start, e.cell), FALSE), RetNone)

\* From<Grid> for Rows
Rows_from(g) ==
    LET e == project_right(g.start, g) IN
    IF e.panic THEN Outcome(NoIter, RetPanic)
    ELSE Outcome(MkIter("rows", g, MkGrid(g.start, e.cell), FALSE), RetNone)

\* variant: no check of consumed on entry
Cells_next_no_fuse(it) ==
    IF it.current = it.grid.end
    THEN Outcome([it EXCEPT !.consumed = TRUE], RetCell(it.current))
    ELSE LET r == overflowing_right(it.current, it.grid, 1) IN
         IF r.panic THEN Outcome(it, RetPanic)
         ELSE IF r.flag
              THEN LET n == wrapping_down(r.cell, it.grid, 1) IN
                   IF n.panic THEN Outcome(it, RetPanic)
                   ELSE Outcome([it EXCEPT !.current = n.cell], RetCell(it.current))
              ELSE Outcome([it EXCEPT !.current = r.cell], RetCell(it.current))

\* variant: the terminal check compares the width coordinate only
Cells_next_row_end(it) ==
    IF it.consumed THEN Outcome(it, RetNone)
    ELSE IF it.current.global_width = it.grid.end.global_width
    THEN Outcome([it EXCEPT !.consumed = TRUE], RetCell(it.current))
    ELSE LET r == overflowing_right(it.current, it.grid, 1) IN
         IF r.panic THEN Outcome(it, RetPanic)
         ELSE IF r.flag
              THEN LET n == wrapping_down(r.cell, it.grid, 1) IN
                   IF n.panic THEN Outcome(it, RetPanic)
                   ELSE Outcome([it EXCEPT !.current = n.cell], RetCell(it.current))
              ELSE Outcome([it EXCEPT !.current = r.cell], RetCell(it.current))

\* Iterator::next for Cells
Cells_next(it) ==
    IF it.consumed THEN Outcome(it, RetNone)
    ELSE IF it.current = it.grid.end
    THEN Outcome([it EXCEPT !.consumed = TRUE], RetCell(it.current))
    ELSE LET r == overflowing_right(it.current, it.grid, 1) IN
         IF r.panic THEN Outcome(it, RetPanic)
         ELSE IF r.flag
              THEN LET n == wrapping_down(r.cell, it.grid, 1) IN
                   IF n.panic THEN Outcome(it, RetPanic)
                   ELSE Outcome([it EXCEPT !.current = n.cell], RetCell(it.current))
              ELSE Outcome([it EXCEPT !.current = r.cell], RetCell(it.current))

\* Iterator::next for Columns
Columns_next(it) ==
    IF it.consumed THEN Outcome(it, RetNone)
    ELSE IF it.current.end = it.grid.end
    THEN Outcome([it EXCEPT !.consumed = TRUE], RetGrid(it.current))
    ELSE LET n == RetGridOf(saturating_right(it.current.start, it.grid, 1),
                            saturating_right(it.current.end, it.grid, 1)) IN
         IF n.panic THEN Outcome(it, RetPanic)
         ELSE Outcome([it EXCEPT !.current = n.grid], RetGrid(it.current))

\* variant: only the end of the current row moves down
Rows_next_end_only(it) ==
    IF it.consumed THEN Outcome(it, RetNone)
    ELSE IF it.current.end = it.grid.end
    THEN Outcome([it EXCEPT !.consumed = TRUE], RetGrid(it.current))
    ELSE LET n == RetGridOf(RetCell(it.current.start),
                            saturating_down(it.current.end, it.grid, 1)) IN
         IF n.panic THEN Outcome(it, RetPanic)
         ELSE Outcome([it EXCEPT !.current = n.grid], RetGrid(it.current))

\* Iterator::next for Rows
Rows_next(it) ==
    IF it.consumed THEN Outcome(it, RetNone)
    ELSE IF it.current.end = it.grid.end
    THEN Outcome([it EXCEPT !.consumed = TRUE], RetGrid(it.current))
    ELSE LET n == RetGridOf(saturating_down(it.current.start, it.grid, 1),
                            saturating_down(it.current.end, it.grid, 1)) IN
         IF n.panic THEN Outcome(it, RetPanic)
         ELSE Outcome([it EXCEPT !.current = n.grid], RetGrid(it.current))

\* -------------------------------------------------------------- actions
\* The program calls name on grid (to make an iterator) or on the iterator
\* it holds; o is the outcome.
CallIter(name, o) ==
    /\ op' = name
    /\ ret' = o.ret
    /\ iter' = o.iter
    /\ yielded' = IF o.ret.panic \/ o.ret = RetNone THEN yielded ELSE yielded + 1
    /\ calls' = calls + 1
    /\ UNCHANGED <<overflow_checks, grid, cell, step, prev, budget, args, map, collected>>

\* next() may be called on the iterator of kind k: it is the one held, no
\* call has panicked, and an exhausted iterator has been called fewer than
\* MaxExtraNext times
MayNext(k) ==
    /\ ~ret.panic
    /\ iter.kind = k
    /\ iter.consumed => calls - yielded - 1 < MaxExtraNext

GridCells ==
    /\ iter.kind = "none"
    /\ (grid.end.global_width - grid.start.global_width + 1)
         * (grid.end.global_depth - grid.start.global_depth + 1) <= MaxCellsSize
    /\ CallIter("cells", Cells_from(grid))

GridRows == iter.kind = "none" /\ CallIter("rows", Rows_from(grid))

GridColumns == iter.kind = "none" /\ CallIter("columns", Columns_from(grid))

CellsNext == MayNext("cells") /\ CallIter("Cells::next", Cells_next(iter))

RowsNext == MayNext("rows") /\ CallIter("Rows::next", Rows_next(iter))

ColumnsNext == MayNext("columns") /\ CallIter("Columns::next", Columns_next(iter))

NextIter == GridCells \/ GridRows \/ GridColumns \/ CellsNext \/ RowsNext \/ ColumnsNext

\* an iterator is made from any grid and next() is called on it repeatedly
InitIter ==
    /\ Start(AllCells, 0)
    /\ cell = grid.start

SpecIter == InitIter /\ [][NextIter]_vars

\* ----------------------------------------------------------- properties
\* next() returned Some(_)
Some == ~ret.panic /\ ret # RetNone

\* the k-th cell (from 0) of g in row-major order
CellAt(g, k) ==
    MkCell(g.start.global_width + (k % ExtentW(g)),
           g.start.global_depth + (k \div ExtentW(g)))

\* the k-th row and the k-th column (from 0) of g
RowAt(g, k) ==
    MkGrid(MkCell(g.start.global_width, g.start.global_depth + k),
           MkCell(g.end.global_width, g.start.global_depth + k))

ColumnAt(g, k) ==
    MkGrid(MkCell(g.start.global_width + k, g.start.global_depth),
           MkCell(g.start.global_width + k, g.end.global_depth))

\* C17: the calls of next() on grid.cells() return the cells of the grid in
\* row-major order, each once, from grid.start to grid.end, and None only
\* after all size() of them; no call fails.
Cex_C17 ==
    op = "Cells::next" =>
        /\ ~ret.panic
        /\ iter.grid = grid
        /\ Some => ret = RetCell(CellAt(grid, yielded - 1))
        /\ yielded <= ExtentW(grid) * ExtentD(grid)
        /\ ret = RetNone => yielded = ExtentW(grid) * ExtentD(grid)

\* C18: the calls of next() on grid.rows() return the one-row grids of the
\* grid's full width from the top row to the bottom row, the k-th being
\* [(start.width, start.depth + k):(end.width, start.depth + k)], and None
\* only after all depth of them.
Thm_C18 ==
    op = "Rows::next" =>
        /\ ~ret.panic
        /\ iter.grid = grid
        /\ Some => ret = RetGrid(RowAt(grid, yielded - 1))
        /\ yielded <= ExtentD(grid)
        /\ ret = RetNone => yielded = ExtentD(grid)

\* None after the rows of a grid of several rows have all been returned
Wit_C18 ==
    /\ op = "Rows::next" /\ ret = RetNone
    /\ yielded = ExtentD(grid) /\ yielded > 1 /\ ExtentW(grid) > 1

\* C19: the calls of next() on grid.columns() return the one-column grids
\* of the grid's full depth from left to right, the k-th being
\* [(start.width + k, start.depth):(start.width + k, end.depth)], and None
\* only after all width of them.
Thm_C19 ==
    op = "Columns::next" =>
        /\ ~ret.panic
        /\ iter.grid = grid
        /\ Some => ret = RetGrid(ColumnAt(grid, yielded - 1))
        /\ yielded <= ExtentW(grid)
        /\ ret = RetNone => yielded = ExtentW(grid)

\* None after the columns of a grid of several columns have all been
\* returned
Wit_C19 ==
    /\ op = "Columns::next" /\ ret = RetNone
    /\ yielded = ExtentW(grid) /\ yielded > 1 /\ ExtentD(grid) > 1

\* C20: once consumed is set, every call of next() returns None and leaves
\* the iterator (grid, current, consumed) as it is, so nothing is yielded
\* after the terminal element.
Thm_C20 ==
    [][(iter.kind # "none" /\ iter.consumed) =>
         (ret' = RetNone /\ iter' = iter /\ yielded' = yielded)]_vars

\* two calls of next() on an exhausted Cells, both None
Wit_C20 ==
    /\ iter.kind = "cells" /\ iter.consumed
    /\ op = "Cells::next" /\ ret = RetNone
    /\ calls - yielded - 1 >= 2
    /\ yielded > 1

\* ----------------------------------------------------------- traversal
NextOps == {"Cells::next", "Rows::next", "Columns::next"}

\* how far the cursor of an iterator is from the start of its grid, and the
\* number of positions the cursor can take
Rank(it) ==
    IF it.kind = "cells"
    THEN (it.current.global_depth - it.grid.start.global_depth) * ExtentW(it.grid)
         + (it.current.global_width - it.grid.start.global_width)
    ELSE IF it.kind = "rows"
    THEN it.current.start.global_depth - it.grid.start.global_depth
    ELSE it.current.start.global_width - it.grid.start.global_width

Positions(it) ==
    IF it.kind = "cells" THEN ExtentW(it.grid) * ExtentD(it.grid)
    ELSE IF it.kind = "rows" THEN ExtentD(it.grid)
    ELSE ExtentW(it.grid)

\* C21: for every grid, also one whose width or depth spans 0..255, a full
\* traversal by cells(), rows() or columns() ends: no call of next() fails,
\* and each call on an iterator that is not exhausted either exhausts it or
\* moves the cursor forward to a position of the grid, never back, so None
\* is returned after finitely many calls.
Cex_C21 ==
    [][(iter.kind # "none" /\ ~iter.consumed /\ op' \in NextOps) =>
         /\ ~ret'.panic
         /\ iter'.consumed \/ Rank(iter') > Rank(iter)
         /\ Rank(iter') < Positions(iter')]_vars

\* ======================================================================
\* GridMap: a Grid and a HashMap<Cell, V>
\* ======================================================================
MaxValue == 2       \* the values stored are 1..MaxValue
MaxMapCalls == 3    \* operations called in SpecMap, making the map included

Values == 1..MaxValue

\* an entry of the HashMap, the keys of a HashMap, and Option<V> as a result
Entry(k, v) == [key |-> k, value |-> v]

Keys(h) == {e.key : e \in h}

RetOption(h, k) ==
    IF k \in Keys(h) THEN RetNum((CHOOSE e \in h : e.key = k).value) ELSE RetNone

MkMap(g, h) == [made |-> TRUE, grid |-> g, hashmap |-> h]

\* the outcome of a call on a GridMap: the map afterwards and what the call
\* returned
MapOutcome(m, r) == [map |-> m, ret |-> r]

\* HashMap::insert: the value replaces the one stored under the key, which
\* is returned
HashMap_insert(h, k, v) ==
    [hashmap |-> {e \in h : e.key # k} \cup {Entry(k, v)}, ret |-> RetOption(h, k)]

\* HashMap::entry(k).or_insert(v): stores v when the key is vacant, and
\* returns the value then stored under the key
HashMap_entry_or_insert(h, k, v) ==
    IF k \in Keys(h) THEN [hashmap |-> h, ret |-> RetOption(h, k)]
    ELSE [hashmap |-> h \cup {Entry(k, v)}, ret |-> RetNum(v)]

\* HashMap::remove
HashMap_remove(h, k) == [hashmap |-> {e \in h : e.key # k}, ret |-> RetOption(h, k)]

\* From<Grid> for GridMap
GridMap_from(g) == MapOutcome(MkMap(g, {}), RetNone)

GridMap_new(width, depth) ==
    LET g == Grid_new(width, depth) IN
    IF g.panic THEN MapOutcome(NoMap, RetPanic)
    ELSE MapOutcome(MkMap(g.grid, {}), RetNone)

\* variant: the membership of the key is checked after it has been stored
GridMap_insert_check_last(self, c, value) ==
    LET o == HashMap_insert(self.hashmap, c, value) IN
    IF ~within_panic(c, self.grid)
    THEN MapOutcome([self EXCEPT !.hashmap = o.hashmap], RetPanic)
    ELSE MapOutcome([self EXCEPT !.hashmap = o.hashmap], o.ret)

GridMap_insert(self, c, value) ==
    IF ~within_panic(c, self.grid) THEN MapOutcome(self, RetPanic)
    ELSE LET o == HashMap_insert(self.hashmap, c, value) IN
         MapOutcome([self EXCEPT !.hashmap = o.hashmap], o.ret)

GridMap_grid(self) == MapOutcome(self, RetGrid(self.grid))

GridMap_occupied(self, c) ==
    IF ~within_panic(c, self.grid) THEN MapOutcome(self, RetPanic)
    ELSE MapOutcome(self, RetBool(c \in Keys(self.hashmap)))

\* a HashMap method called on the GridMap through Deref / DerefMut: it acts
\* on self.hashmap and nothing else
Deref(self, o) == MapOutcome([self EXCEPT !.hashmap = o.hashmap], o.ret)

\* --------------------------------------------------------------- inputs
\* the keys passed to the map: the cells of the diagonal, two cells off it,
\* and the cells of the doc tests
MapCells ==
    {MkCell(w, w) : w \in Coords} \cup {MkCell(0, U8MAX), MkCell(U8MAX, 0)} \cup DocCells

\* -------------------------------------------------------------- actions
\* The program calls name with arguments a, to make the map or on the map
\* it holds; o is the outcome.
CallMap(name, a, o) ==
    /\ op' = name
    /\ args' = a
    /\ ret' = o.ret
    /\ map' = o.map
    /\ calls' = calls + 1
    /\ UNCHANGED <<overflow_checks, grid, cell, step, prev, budget, iter, yielded, collected>>

GridMapFrom ==
    /\ Ready /\ ~map.made
    /\ CallMap("GridMap::from", <<grid>>, GridMap_from(grid))

\* GridMap::new(w, d) with the extents of grid, or with an extent it rejects
GridMapNew ==
    /\ Ready /\ ~map.made
    /\ \E w \in Sizes, d \in Sizes :
        /\ GridMap_new(w, d).ret.panic \/ GridMap_new(w, d).map.grid = grid
        /\ CallMap("GridMap::new", <<w, d>>, GridMap_new(w, d))

GridMapInsert ==
    /\ Ready /\ map.made
    /\ \E c \in MapCells, v \in Values :
        CallMap("GridMap::insert", <<c, v>>, GridMap_insert(map, c, v))

GridMapGrid == Ready /\ map.made /\ CallMap("GridMap::grid", <<>>, GridMap_grid(map))

GridMapOccupied ==
    /\ Ready /\ map.made
    /\ \E c \in MapCells : CallMap("occupied", <<c>>, GridMap_occupied(map, c))

\* map.deref_mut().insert(c, v)
HashMapInsert ==
    /\ Ready /\ map.made
    /\ \E c \in MapCells, v \in Values :
        CallMap("HashMap::insert", <<c, v>>, Deref(map, HashMap_insert(map.hashmap, c, v)))

\* map.entry(c).or_insert(v)
HashMapEntry ==
    /\ Ready /\ map.made
    /\ \E c \in MapCells, v \in Values :
        CallMap("HashMap::entry", <<c, v>>,
                Deref(map, HashMap_entry_or_insert(map.hashmap, c, v)))

\* map.extend([(c, v)])
HashMapExtend ==
    /\ Ready /\ map.made
    /\ \E c \in MapCells, v \in Values :
        CallMap("HashMap::extend", <<c, v>>,
                Deref(map, [HashMap_insert(map.hashmap, c, v) EXCEPT !.ret = RetNone]))

\* map.remove(&c)
HashMapRemove ==
    /\ Ready /\ map.made
    /\ \E c \in MapCells :
        CallMap("HashMap::remove", <<c>>, Deref(map, HashMap_remove(map.hashmap, c)))

\* map.get(&c), copied
HashMapGet ==
    /\ Ready /\ map.made
    /\ \E c \in MapCells :
        CallMap("HashMap::get", <<c>>, MapOutcome(map, RetOption(map.hashmap, c)))

\* map.len()
HashMapLen ==
    /\ Ready /\ map.made
    /\ CallMap("HashMap::len", <<>>, MapOutcome(map, RetNum(Cardinality(map.hashmap))))

NextMap ==
    \/ GridMapFrom \/ GridMapNew \/ GridMapInsert \/ GridMapGrid \/ GridMapOccupied
    \/ HashMapInsert \/ HashMapEntry \/ HashMapExtend \/ HashMapRemove
    \/ HashMapGet \/ HashMapLen

\* a GridMap is made and operations are called on it
InitMap ==
    /\ Start(AllCells, MaxMapCalls)
    /\ grid \in SquareGrids
    /\ cell = grid.start

SpecMap == InitMap /\ [][NextMap]_vars

\* ----------------------------------------------------------- properties
\* C22: GridMap::insert(cell, value) panics when cell is not within the
\* map's grid, and then the stored pairs are as before; when cell is within
\* the grid it stores value under cell and returns the value stored before
\* (or None), as HashMap::insert does; the map's grid never changes.
Thm_C22 ==
    [][(op' = "GridMap::insert" /\ calls' = calls + 1) =>
         /\ map'.grid = map.grid
         /\ IF within(args'[1], map.grid)
            THEN /\ ret' = RetOption(map.hashmap, args'[1])
                 /\ map'.hashmap = HashMap_insert(map.hashmap, args'[1], args'[2]).hashmap
                 /\ Entry(args'[1], args'[2]) \in map'.hashmap
            ELSE /\ ret' = RetPanic
                 /\ map'.hashmap = map.hashmap]_vars

\* an insert that panics on a map that holds a pair
Wit_C22 ==
    /\ op = "GridMap::insert" /\ ret = RetPanic
    /\ map.hashmap # {}
    /\ ~within(args[1], map.grid)

\* C23: whatever operations of GridMap and of HashMap (through Deref and
\* DerefMut) are called on a GridMap, every key it stores is a cell within
\* its grid.
Cex_C23 ==
    map.made => \A e \in map.hashmap : within(e.key, map.grid)

\* ======================================================================
\* Properties of the moves at the borders and on degenerate grids
\* ======================================================================
\* C24: a saturating move from a cell that already lies on the border it
\* travels towards returns that cell, whatever the step; so a saturating
\* move whose step crosses the border, applied again to its own result with
\* the same step, returns the same cell.
Thm_C24 ==
    (op \in SaturatingOps /\ within(prev, grid)) =>
        /\ prev = OnBorder(op, prev, grid) => ret = RetCell(prev)
        /\ ~Fits(op, prev, grid, step) =>
            /\ ~ret.panic
            /\ SaturatingOf(op, ret.cell, grid, step) = ret

\* a saturating move with the largest step from a cell on the border of
\* travel, in a grid of more than one cell on that axis
Wit_C24 ==
    /\ op \in SaturatingOps /\ within(prev, grid)
    /\ prev = OnBorder(op, prev, grid)
    /\ step = U8MAX
    /\ Extent(op, grid) > 1
    /\ ret = RetCell(prev)

\* C25: on a grid whose extent on the axis of travel is 1, an overflowing
\* move returns the cell it was called on, with wrapped = FALSE for step 0
\* and wrapped = TRUE for every step from 1 to 255; it does not panic.
Thm_C25 ==
    (op \in OverflowingOps /\ within(prev, grid) /\ Extent(op, grid) = 1) =>
        ret = RetPair(prev, step >= 1)

\* an overflowing move with the largest step along an axis of extent 1, in
\* a grid that is longer on the other axis
Wit_C25 ==
    /\ op \in {"overflowing_up", "overflowing_down"} /\ within(prev, grid)
    /\ ExtentD(grid) = 1 /\ ExtentW(grid) > 1
    /\ step = U8MAX
    /\ ret = RetPair(prev, TRUE)


\* ======================================================================
\* Properties of the iterators' state
\* ======================================================================
\* next() on it would move the cursor: it is not exhausted and its cursor
\* is not the last one
Advances(it) ==
    /\ it.kind # "none"
    /\ ~it.consumed
    /\ IF it.kind = "cells" THEN it.current # it.grid.end
       ELSE it.current.end # it.grid.end

\* C26: whenever next() of Rows (Columns) moves the cursor, saturating_down
\* (saturating_right) by 1 of current.start and of current.end is the strict
\* move by 1: nothing saturates, and the cursor becomes the next row
\* (column).
Thm_C26 ==
    /\ (iter.kind = "rows" /\ Advances(iter)) =>
        /\ saturating_down(iter.current.start, iter.grid, 1)
             = strict_down(iter.current.start, iter.grid, 1)
        /\ saturating_down(iter.current.end, iter.grid, 1)
             = strict_down(iter.current.end, iter.grid, 1)
        /\ Rows_next(iter).iter.current = RowAt(iter.grid, Rank(iter) + 1)
    /\ (iter.kind = "columns" /\ Advances(iter)) =>
        /\ saturating_right(iter.current.start, iter.grid, 1)
             = strict_right(iter.current.start, iter.grid, 1)
        /\ saturating_right(iter.current.end, iter.grid, 1)
             = strict_right(iter.current.end, iter.grid, 1)
        /\ Columns_next(iter).iter.current = ColumnAt(iter.grid, Rank(iter) + 1)

\* Rows has moved its cursor to the last but one row of a grid of 256 rows
\* and will move it again
Wit_C26 ==
    /\ iter.kind = "rows" /\ Advances(iter) /\ op = "Rows::next"
    /\ ExtentD(iter.grid) = U8MAX + 1
    /\ iter.current.end.global_depth = U8MAX - 1

\* C27: every state of an iterator made from a grid g has grid = g and its
\* cursor within g (for Rows a one-row grid over the full width of g, for
\* Columns a one-column grid over its full depth), and has consumed set only
\* with the cursor's end on g.end; in Cells the move down that follows a
\* wrap to the right does not itself wrap.
Thm_C27 ==
    /\ iter.kind # "none" =>
        /\ iter.grid = grid
        /\ ValidGrid(iter.grid)
    /\ iter.kind = "cells" =>
        /\ within(iter.current, grid)
        /\ iter.consumed => iter.current = grid.end
        /\ (Advances(iter) /\ iter.current.global_width = grid.end.global_width) =>
             LET d == overflowing_down(MkCell(grid.start.global_width,
                                              iter.current.global_depth), grid, 1)
             IN  ~d.panic /\ ~d.flag
    /\ iter.kind = "rows" =>
        /\ ValidGrid(iter.current) /\ Grid_within(iter.current, grid)
        /\ iter.current.start.global_depth = iter.current.end.global_depth
        /\ iter.current.start.global_width = grid.start.global_width
        /\ iter.current.end.global_width = grid.end.global_width
        /\ iter.consumed => iter.current.end = grid.end
    /\ iter.kind = "columns" =>
        /\ ValidGrid(iter.current) /\ Grid_within(iter.current, grid)
        /\ iter.current.start.global_width = iter.current.end.global_width
        /\ iter.current.start.global_depth = grid.start.global_depth
        /\ iter.current.end.global_depth = grid.end.global_depth
        /\ iter.consumed => iter.current.end = grid.end

\* Cells has wrapped to the start of the second row, in a grid of more than
\* one column
Wit_C27 ==
    /\ iter.kind = "cells" /\ op = "Cells::next" /\ ~ret.panic
    /\ ExtentW(grid) > 1
    /\ ret.cell = MkCell(grid.end.global_width, grid.start.global_depth)
    /\ iter.current = MkCell(grid.start.global_width, grid.start.global_depth + 1)


\* ======================================================================
\* Whole traversals: iterator.collect()
\* ======================================================================
MaxCollect == 512       \* the traversals collected are of grids of at most this many cells,
                        \* and make at most this many calls of next()

\* a traversal run to its end: the elements gathered, or that a call of
\* next() panicked
MkCollected(k, p, s) == [of |-> k, panic |-> p, cells |-> s]

\* next() of the iterator it
Next_of(it) ==
    IF it.kind = "cells" THEN Cells_next(it)
    ELSE IF it.kind = "rows" THEN Rows_next(it)
    ELSE Columns_next(it)

\* what a loop over an iterator has done so far: the iterator afterwards,
\* whether a call of next() panicked, and the values Some(x) returned in
\* order
Taken(it, p, s) == [iter |-> it, panic |-> p, items |-> s]

\* one call of next(), of outcome o
TakeOne(o) ==
    Taken(o.iter, o.ret.panic, IF o.ret.panic \/ o.ret = RetNone THEN <<>> ELSE <<o.ret>>)

\* b follows a
TakeJoin(a, b) == Taken(b.iter, b.panic, a.items \o b.items)

\* the loop `for x in it { .. }`, cut after n calls of next().  The loop
\* ends when next() returns None, which it does exactly when consumed is
\* set; the n calls are made half by half, and nothing is called after a
\* panic.
RECURSIVE Take(_, _)
RECURSIVE TakeMore(_, _)
Take(it, n) ==
    IF it.consumed THEN Taken(it, FALSE, <<>>)
    ELSE IF n = 1 THEN TakeOne(Next_of(it))
    ELSE TakeMore(Take(it, n \div 2), n - (n \div 2))

TakeMore(a, n) == IF a.panic THEN a ELSE TakeJoin(a, Take(a.iter, n))

\* the Vec of the cells taken by t, a loop over Cells that has ended
CellsOf(t) ==
    IF t.panic \/ ~t.iter.consumed THEN MkCollected("cells", TRUE, <<>>)
    ELSE MkCollected("cells", FALSE, [i \in DOMAIN t.items |-> t.items[i].cell])

\* g.cells().collect()
Cells_collect(g) == CellsOf(Take(Cells_from(g).iter, MaxCollect))

\* the cells of the grids items[lo..hi], one grid after the other
RECURSIVE Flat_cells(_, _, _)
Flat_cells(items, lo, hi) ==
    IF lo > hi THEN <<>>
    ELSE IF lo = hi THEN Cells_collect(items[lo].grid).cells
    ELSE Flat_cells(items, lo, (lo + hi) \div 2) \o Flat_cells(items, (lo + hi) \div 2 + 1, hi)

\* the Vec of the cells of the parts taken by t, a loop over Rows or Columns
\* that has ended
PartsCellsOf(k, t) ==
    IF \/ t.panic \/ ~t.iter.consumed
       \/ \E i \in DOMAIN t.items : Cells_collect(t.items[i].grid).panic
    THEN MkCollected(k, TRUE, <<>>)
    ELSE MkCollected(k, FALSE, Flat_cells(t.items, 1, Len(t.items)))

\* from.flat_map(|part| part.cells()).collect(), from being g.rows() or
\* g.columns()
Parts_cells_collect(k, from) ==
    IF from.ret.panic THEN MkCollected(k, TRUE, <<>>)
    ELSE PartsCellsOf(k, Take(from.iter, MaxCollect))

\* g.rows().flat_map(|row| row.cells()).collect()
Rows_cells_collect(g) == Parts_cells_collect("rows", Rows_from(g))

\* g.columns().flat_map(|column| column.cells()).collect()
Columns_cells_collect(g) == Parts_cells_collect("columns", Columns_from(g))

\* -------------------------------------------------------------- actions
\* The program runs a traversal of grid to its end and keeps what it
\* gathered; c is the outcome.
CallCollect(name, c) ==
    /\ op' = name
    /\ ret' = IF c.panic THEN RetPanic ELSE RetNone
    /\ collected' = c
    /\ calls' = calls + 1
    /\ UNCHANGED <<overflow_checks, grid, cell, step, prev, budget, args, iter, yielded, map>>

CollectCells ==
    /\ Ready /\ collected = NoCollected
    /\ CallCollect("cells.collect", Cells_collect(grid))

CollectRowsCells ==
    /\ Ready /\ collected = NoCollected
    /\ CallCollect("rows.cells.collect", Rows_cells_collect(grid))

CollectColumnsCells ==
    /\ Ready /\ collected = NoCollected
    /\ CallCollect("columns.cells.collect", Columns_cells_collect(grid))

\* grid.within(outer), asked once the cells of grid have been collected,
\* for outer the grid itself or a square grid
GridWithin ==
    /\ Ready /\ collected.of = "cells"
    /\ \E outer \in SquareGrids \cup {grid} :
        CallGrid("Grid::within", <<outer>>, RetBool(Grid_within(grid, outer)))

NextCollect == CollectCells \/ CollectRowsCells \/ CollectColumnsCells \/ GridWithin

\* one traversal of grid is collected; grid.within(outer) may then be asked
InitCollect ==
    /\ Start(AllCells, 2)
    /\ cell = grid.start
    /\ ExtentW(grid) * ExtentD(grid) <= MaxCollect

SpecCollect == InitCollect /\ [][NextCollect]_vars

\* ----------------------------------------------------------- properties
\* the elements of a sequence
Range(s) == {s[i] : i \in DOMAIN s}

\* C28: for every grid, the cells of its rows, row after row, are the same
\* sequence as the cells of the grid, and the cells of its columns are the
\* same set of cells.
Cex_C28 ==
    /\ op = "cells.collect" =>
        /\ ~collected.panic
        /\ Len(collected.cells) = ExtentW(grid) * ExtentD(grid)
    /\ op = "rows.cells.collect" =>
        /\ ~collected.panic
        /\ collected = [Cells_collect(grid) EXCEPT !.of = "rows"]
    /\ op = "columns.cells.collect" =>
        /\ ~collected.panic
        /\ ~Cells_collect(grid).panic
        /\ Range(collected.cells) = Range(Cells_collect(grid).cells)

\* C30: s.cells() yields the cells of s, and s.within(outer) is true
\* exactly when every one of them is within outer.
Cex_C30 ==
    /\ op = "cells.collect" => ~collected.panic
    /\ (op = "Grid::within" /\ collected.of = "cells") =>
        (ret.flag <=> \A i \in DOMAIN collected.cells : within(collected.cells[i], args[1]))


\* ======================================================================
\* Wrapping moves in opposite directions
\* ======================================================================
\* the wrapping move against the direction of o
WrappingBack(o, c, g, n) ==
    IF o \in UpOps THEN wrapping_down(c, g, n)
    ELSE IF o \in DownOps THEN wrapping_up(c, g, n)
    ELSE IF o \in LeftOps THEN wrapping_right(c, g, n)
    ELSE wrapping_left(c, g, n)

\* position of c relative to the start of g on the axis o travels along
Rel(o, c, g) ==
    IF o \in LeftOps \cup RightOps THEN c.global_width - g.start.global_width
    ELSE c.global_depth - g.start.global_depth

\* C29: a wrapping move from a cell of the grid takes the relative position
\* rel on its axis to (rel + step) mod L (right, down) or (rel - step) mod L
\* (left, up), L the extent of the axis, and leaves the other coordinate;
\* the wrapping move with the same step in the opposite direction then
\* returns the cell it started from.
Cex_C29 ==
    (op \in WrappingOps /\ within(prev, grid)) =>
        /\ ~ret.panic
        /\ Rel(op, ret.cell, grid)
             = (Rel(op, prev, grid)
                + (IF op \in RightOps \cup DownOps THEN step ELSE 0 - step))
               % Extent(op, grid)
        /\ IF op \in LeftOps \cup RightOps
           THEN ret.cell.global_depth = prev.global_depth
           ELSE ret.cell.global_width = prev.global_width
        /\ WrappingBack(op, ret.cell, grid, step) = RetCell(prev)

====
